---- MODULE Spec2Model ----
(***************************************************************************)
(* Model of the multi-instance process supervisor of minemanage            *)
(* (src/manager.py): start, stop, kill, backup and restore of game server  *)
(* instances that live in GNU screen sessions.                             *)
(*                                                                         *)
(* Every supervisor invocation (one run of the CLI) is a process of Procs. *)
(* An invocation runs one command; its steps are cut at the places where   *)
(* it reads or changes state that other invocations share (the config      *)
(* file, the screen session table, the TCP ports, the instance             *)
(* directories).  The workers and the clock are moved by environment       *)
(* actions.  Directories exist when they hold a file; empty directories    *)
(* are not modelled.                                                       *)
(***************************************************************************)
EXTENDS Integers, Sequences, FiniteSets, TLC

(***************************************************************************)
(* Bounds of the model.                                                    *)
(***************************************************************************)
NumProcs == 2          \* supervisor invocations that can run at once
MaxSessions == 2       \* screen sessions (process ids) that can exist at once
MaxClock == 1          \* seconds the wall clock can advance
MaxInstances == 2      \* instance directories that can exist at once

Procs == 1..NumProcs
Pids == 1..MaxSessions
Stamps == 0..MaxClock

(***************************************************************************)
(* Strings are sequences of one-character strings, so that the substring   *)
(* tests of the code are computed and not assumed.                         *)
(***************************************************************************)
NameA == <<"a">>
NameAB == <<"a", "b">>
NameLogs == <<"l", "o", "g", "s">>
NameDefault == <<"d", "e", "f", "a", "u", "l", "t">>
AllNames == {NameA, NameAB, NameLogs, NameDefault}

NoName == <<>>

\* what a user can type as a name: an instance name, nothing, or ".."
NameUp == <<".", ".">>
TypedNames == AllNames \cup {NoName, NameUp}

\* needle in hay (Python's `in` on str)
IsSubstring(needle, hay) ==
    \E i \in 0..(Len(hay) - Len(needle)) :
        \A j \in 1..Len(needle) : hay[i + j] = needle[j]

\* str.startswith
IsPrefix(pre, s) ==
    /\ Len(pre) <= Len(s)
    /\ \A j \in 1..Len(pre) : s[j] = pre[j]

\* os.path.join of two parts
PathJoin(a, b) == a \o <<"/">> \o b

\* validate_instance_name
AllowedChars ==
    {"a", "b", "c", "d", "e", "f", "g", "h", "i", "j", "k", "l", "m", "n", "o",
     "p", "q", "r", "s", "t", "u", "v", "w", "x", "y", "z", "A", "B", "C", "D",
     "E", "F", "G", "H", "I", "J", "K", "L", "M", "N", "O", "P", "Q", "R", "S",
     "T", "U", "V", "W", "X", "Y", "Z", "0", "1", "2", "3", "4", "5", "6", "7",
     "8", "9", "_", "-"}

validate_instance_name(name) ==
    /\ name # <<>>
    /\ \A i \in 1..Len(name) : name[i] \in AllowedChars

\* the "server-port" cmd_start assumes when server.properties names none
DefaultPort == 25565
OtherPort == DefaultPort + 1
Ports == {DefaultPort, OtherPort}

EulaStates == {"missing", "false", "true"}

(***************************************************************************)
(* The files of an instance directory, by their path below it, and what    *)
(* they hold (0: no such file).                                            *)
(***************************************************************************)
DirWorld == <<"w", "o", "r", "l", "d">>
DirRegion == PathJoin(DirWorld, <<"r">>)
DirLogs == <<"l", "o", "g", "s">>

\* a file: the directory that holds it (below the instance directory) and
\* its name
FileLevel == [dir |-> DirWorld, name |-> <<"l">>]
FileRegion == [dir |-> DirRegion, name |-> <<"m">>]
FileLog == [dir |-> DirLogs, name |-> <<"x">>]
Files == {FileLevel, FileRegion, FileLog}

\* what a file can hold: level.dat is rewritten (two versions), the region
\* file comes and goes, the log is there
Contents(f) ==
    IF f = FileLevel THEN {0, 1, 2} ELSE IF f = FileRegion THEN {0, 1} ELSE {1}

Trees == {t \in [Files -> {0, 1, 2}] : \A f \in Files : t[f] \in Contents(f)}

NoFiles == [f \in Files |-> 0]

\* the file lies in the world subtree
InWorld(f) == f.dir = DirWorld \/ IsPrefix(DirWorld \o <<"/">>, f.dir)

WorldFiles == {f \in Files : InWorld(f)}

\* the world subtree of a tree
WorldOf(t) == [f \in WorldFiles |-> t[f]]

\* os.path.exists(world_dir)
HasWorld(t) == \E f \in WorldFiles : t[f] # 0

VARIABLES
    exists,      \* the instance directories that exist under instances/
    gfile,       \* the global config file ~/.minemanage/config.json
    icfg,        \* icfg[n]: the file instance.json of instance n
    eula,        \* eula[n]: eula.txt of instance n ("missing", "false", "true")
    jar,         \* jar[n]: server.jar exists in the directory of instance n
    port,        \* port[n]: server-port of instance n's server.properties
    tree,        \* tree[n]: the other files of the directory of instance n
    archives,    \* archives[s]: backups/backup_<s>.zip (its entries), or none
    now,         \* the wall clock, in seconds
    sessions,    \* sessions[k]: the screen session with process id k
    pc,          \* pc[p]: the next step of invocation p ("idle": none runs)
    result,      \* result[p]: the outcome invocation p reported
    target,      \* target[p]: target_instance / server_dir of invocation p
    polls,       \* polls[p]: liveness polls of cmd_stop that found it alive
    khash,       \* khash[p]: admin_hash read by cmd_kill
    typed,       \* typed[p]: the password typed into cmd_kill
    pid,         \* pid[p]: the process id cmd_kill resolved (0: None)
    stamp,       \* stamp[p]: timestamp of cmd_backup, target_backup of restore
    wasRunning,  \* wasRunning[p]: `running` of cmd_backup
    pending,     \* pending[p]: the record that p is about to dump into a file
    overlap,     \* history: overlap[n], two starts of n overlapped
    honoured,    \* history: instances whose worker exited after a "stop"
    worldAt,     \* history: worldAt[s], the world subtree archive s was made of
    suspended    \* history: suspended[p], the sessions that took the save-off
                 \*          of the cmd_backup that invocation p runs

fsVars == <<exists, gfile, icfg, eula, jar, port>>
dirVars == <<tree, archives>>
osVars == <<sessions, now>>
locals == <<target, polls, khash, typed, pid, stamp, wasRunning, pending>>
history == <<overlap, honoured, worldAt, suspended>>
vars == <<exists, gfile, icfg, eula, jar, port, tree, archives, now,
          sessions, pc, result, target, polls, khash, typed, pid, stamp,
          wasRunning, pending, overlap, honoured, worldAt, suspended>>

(***************************************************************************)
(* Passwords and hashes.  A text is a typed password, the SHA-256 hex      *)
(* digest of a text (the legacy format), or "<salt>$<pbkdf2 digest>" of a  *)
(* text; the digests are taken to be free of collisions.  A text is the    *)
(* sequence of the marks that build it.                                    *)
(***************************************************************************)
Passwords == {"pw1", "pw2"}
Salts == {"s1"}

EmptyText == <<>>
Plain(x) == <<"plain", x>>
Sha256(t) == <<"sha256">> \o t
Pbkdf2(slt, t) == <<"pbkdf2", slt>> \o t

StoredHashes ==
    {EmptyText} \cup {Sha256(Plain(x)) : x \in Passwords}
                \cup {Pbkdf2(slt, Plain(x)) : slt \in Salts, x \in Passwords}

\* "$" in text: only "<salt>$<digest>" holds one
HasDollar(t) == t # <<>> /\ t[1] = "pbkdf2"

\* salt_hex of stored_password.split("$")
SaltOf(t) == t[2]

\* what verify_password returns: False, True, or the tuple (True, new_hash)
VerifyFalse == [tuple |-> FALSE, ok |-> FALSE, new_hash |-> EmptyText]
VerifyTrue == [tuple |-> FALSE, ok |-> TRUE, new_hash |-> EmptyText]
VerifyUpgrade(h) == [tuple |-> TRUE, ok |-> TRUE, new_hash |-> h]

\* hash_password draws a random salt; any salt of Salts stands for it
verify_password(stored, provided) ==
    IF HasDollar(stored)
      THEN IF Pbkdf2(SaltOf(stored), provided) = stored
             THEN VerifyTrue ELSE VerifyFalse
      ELSE IF Sha256(provided) = stored
             THEN VerifyUpgrade(Pbkdf2(CHOOSE slt \in Salts : TRUE, provided))
             ELSE VerifyFalse

\* Python truth value of what verify_password returns (a tuple is true)
Truthy(r) == r.tuple \/ r.ok

(***************************************************************************)
(* Config files.  A config record is a function from keys to texts.  A     *)
(* file is missing, whole (it holds a record), or torn: opened for writing *)
(* and truncated, its content not yet written.                             *)
(***************************************************************************)
GLOBAL_CONFIG_KEYS ==
    {"java_path", "current_instance", "admin_password_hash", "login_delay"}
INSTANCE_CONFIG_KEYS == {"ram_min", "ram_max", "server_type", "server_version"}

EmptyRec == [k \in {} |-> EmptyText]
Missing == [st |-> "missing", rec |-> EmptyRec]
Torn == [st |-> "torn", rec |-> EmptyRec]
Whole(r) == [st |-> "whole", rec |-> r]

\* dict.get(k, d)
Get(r, k, d) == IF k \in DOMAIN r THEN r[k] ELSE d

\* dict[k] = v
Put(r, k, v) == [j \in DOMAIN r \cup {k} |-> IF j = k THEN v ELSE r[j]]

default_config ==
    [k \in {"java_path", "current_instance", "admin_password_hash"} |->
        IF k = "java_path" THEN <<"java">>
        ELSE IF k = "current_instance" THEN NameDefault ELSE EmptyText]

\* what get_global_config returns: the record of the file, the defaults when
\* the file is missing or cannot be parsed
get_global_config == IF gfile.st = "whole" THEN gfile.rec ELSE default_config

\* config.get("current_instance", "default")
current == Get(get_global_config, "current_instance", NameDefault)

\* config.get("admin_password_hash")
adminHash == Get(get_global_config, "admin_password_hash", EmptyText)

\* os.path.exists(os.path.join(INSTANCES_DIR, n)): instances/.. is the
\* working directory, there whenever instances/ is
DirExists(n) == n \in exists \/ (n = NameUp /\ exists # {})

\* the file instance.json under get_instance_dir(n)
InstanceFile(n) == IF n \in AllNames THEN icfg[n] ELSE Missing

\* load_instance_config: {} when the file does not exist (a torn file makes
\* json.load raise, see ConfigBegin)
load_instance_config(n) == InstanceFile(n).rec

\* an overlay in which the global record wins
LoadConfigGlobalWins(n) ==
    LET g == get_global_config
        i == load_instance_config(IF n # NoName THEN n
                                  ELSE Get(g, "current_instance", NoName))
    IN  [k \in DOMAIN g \cup DOMAIN i |-> IF k \in DOMAIN g THEN g[k] ELSE i[k]]

\* load_config: g_cfg.update(i_cfg)
load_config(n) ==
    LET g == get_global_config
        i == load_instance_config(IF n # NoName THEN n
                                  ELSE Get(g, "current_instance", NoName))
    IN  [k \in DOMAIN g \cup DOMAIN i |-> IF k \in DOMAIN i THEN i[k] ELSE g[k]]

\* a global config file as `config set-password` and `instance select`
\* leave it
GlobalFile(cur, hash) ==
    Whole(Put(Put(default_config, "current_instance", cur),
              "admin_password_hash", hash))

\* instance.json as `instance create` writes it
default_i_cfg(version, type) ==
    [k \in INSTANCE_CONFIG_KEYS |->
        IF k = "ram_min" THEN <<"2G">>
        ELSE IF k = "ram_max" THEN <<"4G">>
        ELSE IF k = "server_type" THEN type ELSE version]

(***************************************************************************)
(* Screen sessions.  A slot k of sessions is the process id of a session.  *)
(*   st    "none": no such process; "live": the session is listed by       *)
(*         `screen -list`; "dying": the session was told to quit and is    *)
(*         no longer listed, its process has not exited yet                *)
(*   name  the instance the session was created for                        *)
(*   bound the worker in the session listens on its instance's port        *)
(*   gotStop  the text "stop" was typed into the session                   *)
(*   autosave the worker saves by itself (save-on / save-off)              *)
(***************************************************************************)
NoSession ==
    [st |-> "none", name |-> NoName, bound |-> FALSE, gotStop |-> FALSE,
     autosave |-> TRUE]

NewSession(n) ==
    [st |-> "live", name |-> n, bound |-> FALSE, gotStop |-> FALSE,
     autosave |-> TRUE]

LivePids == {k \in Pids : sessions[k].st = "live"}

FreePids == {k \in Pids : sessions[k].st = "none"}

\* the sessions of instance n that `screen -list` shows
SessionsOf(n) == {k \in LivePids : sessions[k].name = n}

ScreenPrefix == <<"m", "i", "n", "e", "m", "a", "n", "a", "g", "e", "_">>

get_screen_name(n) == ScreenPrefix \o n

\* the lines of `screen -list` that contain the screen name of n
ListedPidsMatching(n) ==
    {k \in LivePids :
        IsSubstring(get_screen_name(n), get_screen_name(sessions[k].name))}

\* get_server_pid: the pid of the first listed line containing the name
\* (the listing has no fixed order, so any such line can be the first),
\* 0 for None
get_server_pid(n) ==
    IF ListedPidsMatching(n) = {} THEN {0} ELSE ListedPidsMatching(n)

ListeningSessionOf(n) == \E k \in SessionsOf(n) : sessions[k].bound

is_server_running(n) ==
    \/ get_server_pid(n) # {0}
    \/ \E k \in LivePids :
          IsSubstring(get_screen_name(n), get_screen_name(sessions[k].name))

\* is_port_in_use: a connect to the port succeeds when a process listens
is_port_in_use(q) ==
    \/ \E k \in Pids : /\ sessions[k].st # "none"
                       /\ sessions[k].bound
                       /\ port[sessions[k].name] = q
    \/ \E p \in Procs : pc[p] = "fg_listen" /\ port[target[p]] = q

(***************************************************************************)
(* `screen -S <name> -X <command>` picks its session as GNU screen does:   *)
(* the one session named exactly <name>, else the one session whose name   *)
(* starts with <name>; with no such single session it reports an error.    *)
(***************************************************************************)
ScreenTargets(n) ==
    LET exact == SessionsOf(n)
        pre == {k \in LivePids : IsPrefix(get_screen_name(n),
                                          get_screen_name(sessions[k].name))}
    IN  IF Cardinality(exact) = 1 THEN exact
        ELSE IF Cardinality(pre) = 1 THEN pre
        ELSE {}

\* screen -S <name> -X stuff "stop\r": the text reaches the picked session
StuffStop(n) ==
    [k \in Pids |-> IF k \in ScreenTargets(n)
                      THEN [sessions[k] EXCEPT !.gotStop = TRUE]
                      ELSE sessions[k]]

\* screen -S <name> -X stuff "save-off\n" / "save-on\n"
StuffAutosave(n, on) ==
    [k \in Pids |-> IF k \in ScreenTargets(n)
                      THEN [sessions[k] EXCEPT !.autosave = on]
                      ELSE sessions[k]]

\* screen -X -S <name> quit: the picked session leaves the listing; its
\* process is gone at once (gone = TRUE) or lingers
QuitSession(n, gone) ==
    [k \in Pids |-> IF k \in ScreenTargets(n)
                      THEN IF gone THEN NoSession
                           ELSE [sessions[k] EXCEPT !.st = "dying"]
                      ELSE sessions[k]]

\* os.kill(pid, 0) does not raise
ProcessAlive(k) == k \in Pids /\ sessions[k].st # "none"

(***************************************************************************)
(* Invocations.                                                            *)
(***************************************************************************)
IdleProcs ==
    /\ pc = [p \in Procs |-> "idle"]
    /\ result = [p \in Procs |-> "none"]
    /\ target = [p \in Procs |-> NoName]
    /\ polls = [p \in Procs |-> 0]
    /\ khash = [p \in Procs |-> EmptyText]
    /\ typed = [p \in Procs |-> EmptyText]
    /\ pid = [p \in Procs |-> 0]
    /\ stamp = [p \in Procs |-> 0]
    /\ wasRunning = [p \in Procs |-> FALSE]
    /\ pending = [p \in Procs |-> EmptyRec]

NoHistory ==
    /\ overlap = [n \in AllNames |-> FALSE]
    /\ honoured = {}
    /\ worldAt = [s \in Stamps |-> WorldOf(NoFiles)]
    /\ suspended = [p \in Procs |-> {}]

\* invocation p goes on with step l
Goto(p, l) ==
    /\ pc' = [pc EXCEPT ![p] = l]
    /\ UNCHANGED result

\* invocation p ends with outcome r; its local variables are gone
Finish(p, r) ==
    /\ pc' = [pc EXCEPT ![p] = "done"]
    /\ result' = [result EXCEPT ![p] = r]
    /\ target' = [target EXCEPT ![p] = NoName]
    /\ polls' = [polls EXCEPT ![p] = 0]
    /\ khash' = [khash EXCEPT ![p] = EmptyText]
    /\ typed' = [typed EXCEPT ![p] = EmptyText]
    /\ pid' = [pid EXCEPT ![p] = 0]
    /\ stamp' = [stamp EXCEPT ![p] = 0]
    /\ wasRunning' = [wasRunning EXCEPT ![p] = FALSE]
    /\ pending' = [pending EXCEPT ![p] = EmptyRec]

\* the invocation returns to the shell
Return(p) ==
    /\ pc[p] = "done"
    /\ pc' = [pc EXCEPT ![p] = "idle"]
    /\ result' = [result EXCEPT ![p] = "none"]
    /\ UNCHANGED <<fsVars, dirVars, osVars, locals, history>>

\* no other invocation is in flight: commands typed one after the other
Sequential(p) == \A q \in Procs \ {p} : pc[q] = "idle"

(***************************************************************************)
(* cmd_start                                                               *)
(***************************************************************************)
EulaAcceptedIfPresent(n) == eula[n] # "missing"

\* the EULA gate: eula.txt exists and contains "eula=true"
EulaAccepted(n) == eula[n] = "true"

\* the invocations that passed the liveness check for n and have not spawned
InStartWindow(n) ==
    {q \in Procs : target[q] = n /\ pc[q] \in {"start_port", "start_spawn"}}

StartSeesNothing(n) == FALSE

\* the existing-session gate
StartSeesRunning(n) == is_server_running(n)

\* load_config, target_instance = current_instance (no caller passes a
\* name), the EULA gate, then the existing-session gate
StartBegin(p) ==
    /\ pc[p] = "idle"
    /\ IF ~EulaAccepted(current)
         THEN Finish(p, "EulaNotAccepted") /\ UNCHANGED overlap
         ELSE IF StartSeesRunning(current)
                THEN Finish(p, "AlreadyRunning") /\ UNCHANGED overlap
                ELSE /\ Goto(p, "start_port")
                     /\ target' = [target EXCEPT ![p] = current]
                     /\ overlap' = [overlap EXCEPT ![current] =
                                       @ \/ InStartWindow(current) # {}]
                     /\ UNCHANGED <<polls, khash, typed, pid, stamp,
                                    wasRunning, pending>>
    /\ UNCHANGED <<fsVars, dirVars, osVars, honoured, worldAt, suspended>>

PortNeverBusy(n) == FALSE

\* the port probe of the target's server-port
PortBusy(n) == is_port_in_use(port[n])

\* _get_vanilla_launch_command: None when server.jar does not exist
HasLaunchCommand(n) == jar[n]

StartPort(p) ==
    /\ pc[p] = "start_port"
    /\ IF PortBusy(target[p])
         THEN Finish(p, "PortConflict")
         ELSE IF ~HasLaunchCommand(target[p])
                THEN Finish(p, "NoLaunchCommand")
                ELSE Goto(p, "start_spawn") /\ UNCHANGED locals
    /\ UNCHANGED <<fsVars, dirVars, osVars, history>>

\* screen -dmS <name> bash -c <cmd>: a new detached session under the
\* lowest free process id
SpawnSession(n) ==
    LET k == CHOOSE k \in FreePids : \A j \in FreePids : k <= j
    IN  [sessions EXCEPT ![k] = NewSession(n)]

\* not args.attach: the session is created; screen reports an error when
\* the machine cannot take another process
StartSpawn(p) ==
    /\ pc[p] = "start_spawn"
    /\ IF FreePids # {}
         THEN sessions' = SpawnSession(target[p]) /\ Finish(p, "Started")
         ELSE UNCHANGED sessions /\ Finish(p, "SpawnFailed")
    /\ UNCHANGED <<fsVars, dirVars, now, history>>

\* args.attach: the worker runs in the foreground of the invocation, without
\* a session (the flag is read here only, so it is chosen here)
StartForeground(p) ==
    /\ pc[p] = "start_spawn"
    /\ Goto(p, "fg_run")
    /\ UNCHANGED <<fsVars, dirVars, osVars, locals, history>>

\* the foreground worker opens its port
ForegroundBind(p) ==
    /\ pc[p] = "fg_run"
    /\ ~is_port_in_use(port[target[p]])
    /\ Goto(p, "fg_listen")
    /\ UNCHANGED <<fsVars, dirVars, osVars, locals, history>>

\* the foreground worker exits (or Ctrl+C), subprocess.run returns
ForegroundExit(p) ==
    /\ pc[p] \in {"fg_run", "fg_listen"}
    /\ Finish(p, "ForegroundExited")
    /\ UNCHANGED <<fsVars, dirVars, osVars, history>>

(***************************************************************************)
(* cmd_instance select                                                     *)
(***************************************************************************)
InstanceSelect(p, n) ==
    /\ pc[p] = "idle"
    /\ DirExists(n)
    /\ n # current
    /\ gfile' = Whole(Put(get_global_config, "current_instance", n))
    /\ UNCHANGED <<exists, icfg, eula, jar, port, dirVars, osVars, pc,
                   result, locals, history>>

(***************************************************************************)
(* The workers and the clock (environment).                                *)
(***************************************************************************)
\* the worker of session k opens its instance's port
WorkerBind(k) ==
    /\ sessions[k].st = "live"
    /\ ~sessions[k].bound
    /\ ~is_port_in_use(port[sessions[k].name])
    /\ sessions' = [sessions EXCEPT ![k].bound = TRUE]
    /\ UNCHANGED <<fsVars, dirVars, now, pc, result, locals, history>>

\* the worker of session k exits (a crash, a failed bind, or the end of a
\* shutdown): the session ends with it
WorkerExit(k) ==
    /\ sessions[k].st = "live"
    /\ sessions' = [sessions EXCEPT ![k] = NoSession]
    /\ honoured' = IF sessions[k].gotStop
                     THEN honoured \cup {sessions[k].name} ELSE honoured
    /\ UNCHANGED <<fsVars, dirVars, now, pc, result, locals, overlap, worldAt,
                   suspended>>

\* the session was told to quit and left the listing; its process exits
ProcessDies(k) ==
    /\ sessions[k].st = "dying"
    /\ sessions' = [sessions EXCEPT ![k] = NoSession]
    /\ UNCHANGED <<fsVars, dirVars, now, pc, result, locals, history>>

\* a file of an instance directory is written or removed (by the worker, or
\* by hand)
WriteFile(n, f, c) ==
    /\ n \in exists
    /\ c \in Contents(f)
    /\ tree[n][f] # c
    /\ tree' = [tree EXCEPT ![n][f] = c]
    /\ UNCHANGED <<fsVars, archives, osVars, pc, result, locals, history>>

\* a second passes
Tick ==
    /\ now < MaxClock
    /\ now' = now + 1
    /\ UNCHANGED <<fsVars, dirVars, sessions, pc, result, locals, history>>

(***************************************************************************)
(* cmd_stop                                                                *)
(***************************************************************************)
StopPolls == 30

\* load_config, target_instance = current_instance
StopBegin(p) ==
    /\ pc[p] = "idle"
    /\ target' = [target EXCEPT ![p] = current]
    /\ Goto(p, "stop_check")
    /\ UNCHANGED <<fsVars, dirVars, osVars, polls, khash, typed, pid, stamp,
                   wasRunning, pending, history>>

StopCheck(p) ==
    /\ pc[p] = "stop_check"
    /\ IF is_server_running(target[p])
         THEN Goto(p, "stop_send") /\ UNCHANGED locals
         ELSE Finish(p, "StopNotRunning")
    /\ UNCHANGED <<fsVars, dirVars, osVars, history>>

\* screen -S <name> -X stuff "stop\r" (an error of screen is printed and
\* the wait goes on)
StopSend(p) ==
    /\ pc[p] = "stop_send"
    /\ sessions' = StuffStop(target[p])
    /\ Goto(p, "stop_poll")
    /\ UNCHANGED <<fsVars, dirVars, now, locals, history>>

StopQuitsSession(n) == QuitSession(n, TRUE)

\* what cmd_stop does to the sessions when the wait is over: nothing
StopGivesUp(n) == sessions

\* one turn of `for _ in range(30)`: report stopped when not alive, else
\* sleep; after the last turn report that it did not stop in time
StopPoll(p) ==
    /\ pc[p] = "stop_poll"
    /\ IF ~is_server_running(target[p])
         THEN /\ Finish(p, "Stopped")
              /\ UNCHANGED sessions
         ELSE IF polls[p] + 1 >= StopPolls
                THEN /\ Finish(p, "StopTimedOut")
                     /\ sessions' = StopGivesUp(target[p])
                ELSE /\ polls' = [polls EXCEPT ![p] = @ + 1]
                     /\ UNCHANGED <<pc, result, sessions, target, khash,
                                    typed, pid, stamp, wasRunning, pending>>
    /\ UNCHANGED <<fsVars, dirVars, now, history>>

(***************************************************************************)
(* cmd_kill (it always works on the active instance, read anew by each     *)
(* is_server_running(), get_server_pid() and get_screen_name() call)       *)
(***************************************************************************)
\* load_config, admin_hash
KillBegin(p) ==
    /\ pc[p] = "idle"
    /\ IF adminHash = EmptyText
         THEN Finish(p, "NoAdminPassword")
         ELSE /\ Goto(p, "kill_check")
              /\ khash' = [khash EXCEPT ![p] = adminHash]
              /\ UNCHANGED <<target, polls, typed, pid, stamp, wasRunning, pending>>
    /\ UNCHANGED <<fsVars, dirVars, osVars, history>>

KillCheck(p) ==
    /\ pc[p] = "kill_check"
    /\ IF is_server_running(current)
         THEN Goto(p, "kill_auth") /\ UNCHANGED locals
         ELSE Finish(p, "KillNotRunning")
    /\ UNCHANGED <<fsVars, dirVars, osVars, history>>

KillAdmitsAll(stored, provided) == TRUE

\* the credential gate
KillAdmits(stored, provided) == Truthy(verify_password(stored, provided))

\* getpass, verify_password
KillAuth(p, pw) ==
    /\ pc[p] = "kill_auth"
    /\ IF KillAdmits(khash[p], Plain(pw))
         THEN /\ Goto(p, "kill_pid")
              /\ typed' = [typed EXCEPT ![p] = Plain(pw)]
              /\ UNCHANGED <<target, polls, khash, pid, stamp, wasRunning, pending>>
         ELSE Finish(p, "KillAuthFailed")
    /\ UNCHANGED <<fsVars, dirVars, osVars, history>>

\* pid = get_server_pid()
KillPid(p) ==
    /\ pc[p] = "kill_pid"
    /\ \E k \in get_server_pid(current) : pid' = [pid EXCEPT ![p] = k]
    /\ Goto(p, "kill_quit")
    /\ UNCHANGED <<fsVars, dirVars, osVars, target, polls, khash, typed, stamp,
                   wasRunning, pending, history>>

\* screen -X -S <name> quit, then `if pid:`
KillQuit(p) ==
    /\ pc[p] = "kill_quit"
    /\ \E gone \in BOOLEAN : sessions' = QuitSession(current, gone)
    /\ IF pid[p] = 0
         THEN Finish(p, "Killed")
         ELSE Goto(p, "kill_grace") /\ UNCHANGED locals
    /\ UNCHANGED <<fsVars, dirVars, now, history>>

\* after time.sleep(1): os.kill(pid, 0) raises OSError when the process is
\* gone; else os.kill(pid, signal.SIGKILL) is evaluated, and as the module
\* never imports signal that raises NameError, which `except OSError` does
\* not catch: no signal is sent
KillGrace(p) ==
    /\ pc[p] = "kill_grace"
    /\ IF ProcessAlive(pid[p])
         THEN Finish(p, "NameError")
         ELSE Finish(p, "Killed")
    /\ UNCHANGED <<fsVars, dirVars, osVars, history>>

(***************************************************************************)
(* cmd_backup                                                              *)
(***************************************************************************)
InstancesDir == <<"i", "n", "s", "t", "a", "n", "c", "e", "s">>

\* get_instance_dir
get_instance_dir(n) == PathJoin(InstancesDir, n)

\* the words whose presence in a walked path makes the walk skip it
ExcludedWords ==
    {<<"b", "a", "c", "k", "u", "p", "s">>,
     <<"l", "o", "g", "s">>,
     <<"c", "a", "c", "h", "e">>,
     <<"l", "i", "b", "r", "a", "r", "i", "e", "s">>,
     <<"v", "e", "r", "s", "i", "o", "n", "s">>}

\* `root` of os.walk(server_dir) for the directory d of instance n
WalkRoot(n, d) == PathJoin(get_instance_dir(n), d)

\* the walk skips the files of a root that contains an excluded word
Skipped(root) == \E w \in ExcludedWords : IsSubstring(w, root)

\* the entries zipf.write puts into the archive, by arcname
ZipEntries(n, t) ==
    [f \in Files |-> IF Skipped(WalkRoot(n, f.dir)) THEN 0 ELSE t[f]]

\* an archive: its entries, and for the record the instance it was made of
\* and whether that instance was stopped then
NoArchive ==
    [present |-> FALSE, entries |-> NoFiles, of |-> NoName, cold |-> FALSE]

\* send_command: the text is sent when is_server_running() of the active
\* instance, to get_screen_name() of the active instance
SendAutosave(on) ==
    IF is_server_running(current) THEN StuffAutosave(current, on)
    ELSE sessions

\* server_dir, the world check, the timestamp, running
BackupBegin(p) ==
    /\ pc[p] = "idle"
    /\ IF ~HasWorld(tree[current])
         THEN Finish(p, "NoWorld")
         ELSE /\ target' = [target EXCEPT ![p] = current]
              /\ stamp' = [stamp EXCEPT ![p] = now]
              /\ wasRunning' = [wasRunning EXCEPT ![p] =
                                   is_server_running(current)]
              /\ Goto(p, IF is_server_running(current)
                           THEN "backup_saveoff" ELSE "backup_zip")
              /\ UNCHANGED <<polls, khash, typed, pid, pending>>
    /\ suspended' = [suspended EXCEPT ![p] = {}]
    /\ UNCHANGED <<fsVars, dirVars, osVars, overlap, honoured, worldAt>>

\* the sessions that a send_command reaches
SendTargets ==
    IF is_server_running(current) THEN ScreenTargets(current) ELSE {}

\* send_command("save-off")
BackupSaveOff(p) ==
    /\ pc[p] = "backup_saveoff"
    /\ sessions' = SendAutosave(FALSE)
    /\ suspended' = [suspended EXCEPT ![p] = SendTargets]
    /\ Goto(p, "backup_saveall")
    /\ UNCHANGED <<fsVars, dirVars, now, locals, overlap, honoured, worldAt>>

\* send_command("save-all"), time.sleep(2)
BackupSaveAll(p) ==
    /\ pc[p] = "backup_saveall"
    /\ Goto(p, "backup_zip")
    /\ UNCHANGED <<fsVars, dirVars, osVars, locals, history>>

\* the archive backups/backup_<timestamp>.zip is written (mode 'w': a file
\* of that name is replaced)
BackupZip(p) ==
    /\ pc[p] = "backup_zip"
    /\ archives' = [archives EXCEPT ![stamp[p]] =
                      [present |-> TRUE,
                       entries |-> ZipEntries(target[p], tree[target[p]]),
                       of |-> target[p], cold |-> ~wasRunning[p]]]
    /\ worldAt' = [worldAt EXCEPT ![stamp[p]] = WorldOf(tree[target[p]])]
    /\ IF wasRunning[p]
         THEN Goto(p, "backup_saveon") /\ UNCHANGED locals
         ELSE Finish(p, "BackedUp")
    /\ UNCHANGED <<fsVars, tree, osVars, overlap, honoured, suspended>>

\* the archiving fails part-way (a file vanished or cannot be read): the
\* archive holds the entries written before zipf.write raised, "Backup
\* failed" is printed
BackupZipFails(p, written) ==
    /\ pc[p] = "backup_zip"
    /\ written # Files
    /\ LET entries == ZipEntries(target[p], tree[target[p]])
       IN  archives' = [archives EXCEPT ![stamp[p]] =
                          [present |-> TRUE,
                           entries |-> [f \in Files |->
                                          IF f \in written THEN entries[f]
                                          ELSE 0],
                           of |-> target[p], cold |-> ~wasRunning[p]]]
    /\ worldAt' = [worldAt EXCEPT ![stamp[p]] = WorldOf(tree[target[p]])]
    /\ IF wasRunning[p]
         THEN Goto(p, "backup_saveon") /\ UNCHANGED locals
         ELSE Finish(p, "BackupFailed")
    /\ UNCHANGED <<fsVars, tree, osVars, overlap, honoured, suspended>>

\* finally: send_command("save-on")
BackupSaveOn(p) ==
    /\ pc[p] = "backup_saveon"
    /\ sessions' = SendAutosave(TRUE)
    /\ suspended' = [suspended EXCEPT ![p] = {}]
    /\ Finish(p, "BackedUp")
    /\ UNCHANGED <<fsVars, dirVars, now, overlap, honoured, worldAt>>

(***************************************************************************)
(* cmd_restore                                                             *)
(***************************************************************************)
RestoreSeesNothing == FALSE

\* the running gate
RestoreSeesRunning == is_server_running(current)

\* the backups that os.listdir(BACKUP_DIR) shows
ListedBackups == {s \in Stamps : archives[s].present}

\* the running gate, then the listing
RestoreBegin(p) ==
    /\ pc[p] = "idle"
    /\ IF RestoreSeesRunning
         THEN Finish(p, "RestoreConflict")
         ELSE IF ListedBackups = {}
                THEN Finish(p, "NoBackups")
                ELSE Goto(p, "restore_pick") /\ UNCHANGED locals
    /\ UNCHANGED <<fsVars, dirVars, osVars, history>>

\* target_backup: the file name given, or the number chosen from the list;
\* a name that does not exist is rejected
RestorePick(p, s) ==
    /\ pc[p] = "restore_pick"
    /\ IF ~archives[s].present
         THEN Finish(p, "BackupNotFound")
         ELSE /\ stamp' = [stamp EXCEPT ![p] = s]
              /\ Goto(p, "restore_confirm")
              /\ UNCHANGED <<target, polls, khash, typed, pid, wasRunning, pending>>
    /\ UNCHANGED <<fsVars, dirVars, osVars, history>>

\* a restore that leaves the world in place
KeepWorld(t) == t

\* shutil.rmtree(world_dir)
RemoveWorld(t) == [f \in Files |-> IF InWorld(f) THEN 0 ELSE t[f]]

\* "Are you sure?", then server_dir and the removal of its world
RestoreConfirm(p, yes) ==
    /\ pc[p] = "restore_confirm"
    /\ IF ~yes
         THEN Finish(p, "RestoreCancelled") /\ UNCHANGED tree
         ELSE /\ target' = [target EXCEPT ![p] = current]
              /\ tree' = [tree EXCEPT ![current] = RemoveWorld(@)]
              /\ Goto(p, "restore_unzip")
              /\ UNCHANGED <<polls, khash, typed, pid, stamp, wasRunning, pending>>
    /\ UNCHANGED <<fsVars, archives, osVars, history>>

\* zipf.extract of every entry into server_dir
Extracted(entries, t) ==
    [f \in Files |-> IF entries[f] # 0 THEN entries[f] ELSE t[f]]

\* the world of some instance is removed and not yet extracted
Restoring == \E p \in Procs : pc[p] = "restore_unzip"

RestoreUnzip(p) ==
    /\ pc[p] = "restore_unzip"
    /\ tree' = [tree EXCEPT ![target[p]] =
                  Extracted(archives[stamp[p]].entries, @)]
    /\ Finish(p, "Restored")
    /\ UNCHANGED <<fsVars, archives, osVars, history>>

(***************************************************************************)
(* Config commands.                                                        *)
(***************************************************************************)
\* a save that keeps every entry of config
WholeRecord(config) == config

\* save_config: the entries of config that go to the global file, and the
\* ones that go to instance.json
GlobalPart(config) ==
    [k \in GLOBAL_CONFIG_KEYS \cap DOMAIN config |-> config[k]]
InstancePart(config) ==
    [k \in INSTANCE_CONFIG_KEYS \cap DOMAIN config |-> config[k]]

\* open(path, 'w') of instance.json of n: the file is there and empty;
\* ensure_directories has made the directory
OpenInstanceFile(n) ==
    /\ icfg' = [m \in AllNames |-> IF m = n THEN Torn ELSE icfg[m]]
    /\ exists' = exists \cup ({n} \cap AllNames)

\* json.dump into the open instance.json of n
DumpInstanceFile(n, r) ==
    icfg' = [m \in AllNames |-> IF m = n THEN Whole(r) ELSE icfg[m]]

\* get_global_config of any command on a machine without a config file:
\* open(CONFIG_FILE, 'w')
FirstAccess(p) ==
    /\ pc[p] = "idle"
    /\ gfile.st = "missing"
    /\ gfile' = Torn
    /\ Goto(p, "first_dump")
    /\ UNCHANGED <<exists, icfg, eula, jar, port, dirVars, osVars, locals,
                   history>>

\* json.dump(default_config, f); the command goes on with the defaults
FirstDump(p) ==
    /\ pc[p] = "first_dump"
    /\ gfile' = Whole(default_config)
    /\ Goto(p, "idle")
    /\ UNCHANGED <<exists, icfg, eula, jar, port, dirVars, osVars, locals,
                   history>>

\* cmd_config: config = load_config(); json.load of a torn instance.json
\* raises JSONDecodeError, which nothing catches
ConfigBegin(p) ==
    /\ pc[p] = "idle"
    /\ gfile.st # "missing"
    /\ IF InstanceFile(current).st = "torn"
         THEN Finish(p, "JSONDecodeError")
         ELSE /\ Goto(p, "config_loaded")
              /\ pending' = [pending EXCEPT ![p] = load_config(NoName)]
              /\ UNCHANGED <<target, polls, khash, typed, pid, stamp,
                             wasRunning>>
    /\ UNCHANGED <<fsVars, dirVars, osVars, history>>

\* config list
ConfigList(p) ==
    /\ pc[p] = "config_loaded"
    /\ Finish(p, "Listed")
    /\ UNCHANGED <<fsVars, dirVars, osVars, history>>

\* config set <key> <value>: config[key] = value, save_config(config):
\* save_global_config replaces the global file, save_instance_config opens
\* instance.json of the instance that is active by then
ConfigSet(p, k, v) ==
    /\ pc[p] = "config_loaded"
    /\ LET config == Put(pending[p], k, v)
           cur == Get(GlobalPart(config), "current_instance", NameDefault)
       IN  /\ gfile' = Whole(GlobalPart(config))
           /\ OpenInstanceFile(cur)
           /\ pending' = [pending EXCEPT ![p] = InstancePart(config)]
           /\ target' = [target EXCEPT ![p] = cur]
    /\ Goto(p, "config_dump")
    /\ UNCHANGED <<eula, jar, port, dirVars, osVars, polls, khash, typed, pid,
                   stamp, wasRunning, history>>

ConfigDump(p) ==
    /\ pc[p] = "config_dump"
    /\ DumpInstanceFile(target[p], pending[p])
    /\ Finish(p, "ConfigSet")
    /\ UNCHANGED <<exists, gfile, eula, jar, port, dirVars, osVars, history>>

(***************************************************************************)
(* cmd_instance create and delete                                          *)
(***************************************************************************)
\* instance create <n> --version v --type t: the checks, mkdir, and the
\* open of instance.json by save_instance_config(default_i_cfg)
CreateBegin(p, n, v, t) ==
    /\ pc[p] = "idle"
    /\ gfile.st # "missing"
    /\ IF n = NoName THEN Finish(p, "Usage") /\ UNCHANGED <<exists, icfg>>
       ELSE IF ~validate_instance_name(n)
         THEN Finish(p, "InvalidName") /\ UNCHANGED <<exists, icfg>>
       ELSE IF DirExists(n)
         THEN Finish(p, "AlreadyExists") /\ UNCHANGED <<exists, icfg>>
       ELSE /\ OpenInstanceFile(n)
            /\ target' = [target EXCEPT ![p] = n]
            /\ pending' = [pending EXCEPT ![p] = default_i_cfg(v, t)]
            /\ Goto(p, "create_dump")
            /\ UNCHANGED <<polls, khash, typed, pid, stamp, wasRunning>>
    /\ UNCHANGED <<gfile, eula, jar, port, dirVars, osVars, history>>

\* json.dump(default_i_cfg)
CreateDump(p) ==
    /\ pc[p] = "create_dump"
    /\ DumpInstanceFile(target[p], pending[p])
    /\ Goto(p, "create_init")
    /\ UNCHANGED <<exists, gfile, eula, jar, port, dirVars, osVars, locals,
                   history>>

\* cmd_init(instance_name = n): config = load_config(n), the version, the
\* type and current_instance are set in it, save_config(config, n) replaces
\* the global file and opens instance.json
CreateInit(p) ==
    /\ pc[p] = "create_init"
    /\ IF InstanceFile(target[p]).st = "torn"
         THEN Finish(p, "JSONDecodeError") /\ UNCHANGED <<exists, gfile, icfg>>
         ELSE LET mine == pending[p]
                  config == Put(Put(Put(load_config(target[p]),
                                "server_version", mine["server_version"]),
                                "server_type", mine["server_type"]),
                                "current_instance", target[p])
              IN  /\ gfile' = Whole(GlobalPart(config))
                  /\ OpenInstanceFile(target[p])
                  /\ pending' = [pending EXCEPT ![p] = InstancePart(config)]
                  /\ Goto(p, "create_install")
                  /\ UNCHANGED <<target, polls, khash, typed, pid, stamp,
                                 wasRunning>>
    /\ UNCHANGED <<eula, jar, port, dirVars, osVars, history>>

\* json.dump of the instance part, then install_server_core: the download
\* brings server.jar and eula.txt is written, or the download fails
CreateInstall(p, installed) ==
    /\ pc[p] = "create_install"
    /\ DumpInstanceFile(target[p], pending[p])
    /\ IF installed
         THEN /\ jar' = [jar EXCEPT ![target[p]] = TRUE]
              /\ eula' = [eula EXCEPT ![target[p]] = "true"]
         ELSE UNCHANGED <<jar, eula>>
    /\ Finish(p, "Created")
    /\ UNCHANGED <<exists, gfile, port, dirVars, osVars, history>>

\* instance delete <n>: the checks
DeleteBegin(p, n) ==
    /\ pc[p] = "idle"
    /\ gfile.st # "missing"
    /\ IF n = NoName THEN Finish(p, "Usage")
       ELSE IF n = current THEN Finish(p, "DeleteActive")
       ELSE IF ~DirExists(n) THEN Finish(p, "NotFound")
       ELSE /\ target' = [target EXCEPT ![p] = n]
            /\ Goto(p, "delete_confirm")
            /\ UNCHANGED <<polls, khash, typed, pid, stamp, wasRunning,
                           pending>>
    /\ UNCHANGED <<fsVars, dirVars, osVars, history>>

\* "Are you sure?", then shutil.rmtree(target_dir): it removes the directory
\* of the name, and for ".." the working directory with all instances and
\* the backups
DeleteConfirm(p, yes) ==
    /\ pc[p] = "delete_confirm"
    /\ IF ~yes
         THEN /\ Finish(p, "DeleteCancelled")
              /\ UNCHANGED <<exists, icfg, eula, jar, port, dirVars>>
         ELSE LET Removed == IF target[p] = NameUp THEN AllNames
                             ELSE {target[p]}
              IN  /\ exists' = exists \ Removed
                  /\ icfg' = [m \in AllNames |->
                                IF m \in Removed THEN Missing ELSE icfg[m]]
                  /\ eula' = [m \in AllNames |->
                                IF m \in Removed THEN "missing" ELSE eula[m]]
                  /\ jar' = [m \in AllNames |-> m \notin Removed /\ jar[m]]
                  /\ port' = [m \in AllNames |->
                                IF m \in Removed THEN DefaultPort
                                ELSE port[m]]
                  /\ tree' = [m \in AllNames |->
                                IF m \in Removed THEN NoFiles ELSE tree[m]]
                  /\ archives' = IF target[p] = NameUp
                                   THEN [s \in Stamps |-> NoArchive]
                                   ELSE archives
                  /\ Finish(p, "Deleted")
    /\ UNCHANGED <<gfile, osVars, history>>

(***************************************************************************)
(* dashboard_admin_menu, [1] Change Admin Password                         *)
(***************************************************************************)
\* what can be typed at "Enter current password": nothing, a password, or a
\* text made from the stored hash (its SHA-256 digest, or a salt, "$" and
\* the PBKDF2 digest of the stored hash under that salt)
TypedPasswords ==
    {EmptyText} \cup {Plain(x) : x \in Passwords}
                \cup {Sha256(adminHash)}
                \cup {Pbkdf2(slt, adminHash) : slt \in Salts}

\* config = load_config(), choice '1', getpass of the current password
AdminAsk(p, cur) ==
    /\ pc[p] = "idle"
    /\ pending' = [pending EXCEPT ![p] = load_config(NoName)]
    /\ khash' = [khash EXCEPT ![p] = adminHash]
    /\ typed' = [typed EXCEPT ![p] = cur]
    /\ Goto(p, "admin_verify")
    /\ UNCHANGED <<fsVars, dirVars, osVars, target, polls, pid, stamp,
                   wasRunning, history>>

\* verify_password(current_pass, config['admin_password_hash']) when a hash
\* is stored, the new password typed twice (valid: both agree and have four
\* characters), config['admin_password_hash'] = hash_password(new_pass) and
\* save_config(config)
AdminChange(p, new, valid) ==
    /\ pc[p] = "admin_verify"
    /\ IF khash[p] # EmptyText /\ ~Truthy(verify_password(typed[p], khash[p]))
         THEN Finish(p, "IncorrectPassword") /\ UNCHANGED fsVars
       ELSE IF ~valid
         THEN Finish(p, "NewPasswordRejected") /\ UNCHANGED fsVars
       ELSE \E slt \in Salts :
              LET config == Put(pending[p], "admin_password_hash",
                                Pbkdf2(slt, Plain(new)))
                  cur == Get(GlobalPart(config), "current_instance",
                             NameDefault)
              IN  /\ gfile' = Whole(GlobalPart(config))
                  /\ DumpInstanceFile(cur, InstancePart(config))
                  /\ exists' = exists \cup ({cur} \cap AllNames)
                  /\ Finish(p, "PasswordChanged")
                  /\ UNCHANGED <<eula, jar, port>>
    /\ UNCHANGED <<dirVars, osVars, history>>


\* save_config(load_config(n), n): what was loaded is saved as it is
SaveLoaded(p, n) ==
    /\ pc[p] = "idle"
    /\ LET config == load_config(n)
           t == IF n # NoName THEN n
                ELSE Get(GlobalPart(config), "current_instance", NameDefault)
       IN  /\ gfile' = Whole(GlobalPart(config))
           /\ DumpInstanceFile(t, InstancePart(config))
           /\ exists' = exists \cup ({t} \cap AllNames)
    /\ Finish(p, "Saved")
    /\ UNCHANGED <<eula, jar, port, dirVars, osVars, history>>
(***************************************************************************)
(* Specifications.                                                         *)
(***************************************************************************)
\* the directory of an instance that has run: a world, a log
UsedTree == [f \in Files |-> 1]

\* instance.json of the instances that exist (paper 1.20.2, the defaults of
\* `instance create`)
UsedConfigs ==
    [n \in AllNames |->
        IF n \in exists THEN Whole(default_i_cfg(<<"1.20.2">>, <<"paper">>))
        ELSE Missing]

\* what the files of the instances that do not exist read as
Absent ==
    /\ \A n \in AllNames \ exists :
          /\ eula[n] = "missing"
          /\ ~jar[n]
          /\ port[n] = DefaultPort
          /\ tree[n] = NoFiles

NoArchives ==
    /\ archives = [s \in Stamps |-> NoArchive]
    /\ now = 0

\* the sessions of servers that were started earlier and are up
RunningSessions(names) ==
    {ss \in [Pids -> {NoSession} \cup
                     {[NewSession(n) EXCEPT !.bound = TRUE] : n \in names}] :
        \A j, k \in Pids : (j < k /\ ss[j] = NoSession) => ss[k] = NoSession}

\* cmd_start, cmd_instance select and the workers, from a machine where
\* nothing runs
Init ==
    /\ exists = {NameA, NameAB}
    /\ gfile = GlobalFile(NameA, EmptyText)
    /\ icfg = UsedConfigs
    /\ eula \in [AllNames -> EulaStates]
    /\ eula[NameAB] = "true"
    /\ jar \in [AllNames -> BOOLEAN]
    /\ jar[NameAB]
    /\ port \in [AllNames -> Ports]
    /\ port[NameA] = DefaultPort
    /\ tree = [n \in AllNames |-> IF n \in exists THEN UsedTree ELSE NoFiles]
    /\ Absent
    /\ NoArchives
    /\ sessions = [k \in Pids |-> NoSession]
    /\ IdleProcs
    /\ NoHistory

Next ==
    \/ \E p \in Procs :
          \/ StartBegin(p)
          \/ StartPort(p)
          \/ StartSpawn(p)
          \/ StartForeground(p)
          \/ ForegroundBind(p)
          \/ ForegroundExit(p)
          \/ Return(p)
          \/ \E n \in AllNames : InstanceSelect(p, n)
    \/ \E k \in Pids : WorkerBind(k) \/ WorkerExit(k)

Spec == Init /\ [][Next]_vars

\* two instances whose servers may be up, all set to start
ServersUp ==
    /\ exists = {NameA, NameAB}
    /\ gfile \in {GlobalFile(c, h) : c \in exists, h \in StoredHashes}
    /\ icfg = UsedConfigs
    /\ eula = [n \in AllNames |-> IF n \in exists THEN "true" ELSE "missing"]
    /\ jar = [n \in AllNames |-> n \in exists]
    /\ port = [n \in AllNames |-> IF n = NameAB THEN OtherPort
                                   ELSE DefaultPort]
    /\ tree = [n \in AllNames |-> IF n \in exists THEN UsedTree ELSE NoFiles]
    /\ NoArchives
    /\ sessions \in RunningSessions(exists)
    /\ IdleProcs
    /\ NoHistory

\* cmd_stop typed at the shell, one command after the other
StopInit == ServersUp /\ adminHash = EmptyText

StopNext ==
    \/ \E p \in Procs :
          \/ Sequential(p) /\ StopBegin(p)
          \/ StopCheck(p)
          \/ StopSend(p)
          \/ StopPoll(p)
          \/ Return(p)
          \/ \E n \in AllNames : InstanceSelect(p, n)
    \/ \E k \in Pids : WorkerExit(k)

StopSpec == StopInit /\ [][StopNext]_vars

\* cmd_kill typed at the shell, one command after the other
KillInit == ServersUp /\ adminHash \in StoredHashes

KillNext ==
    \/ \E p \in Procs :
          \/ Sequential(p) /\ KillBegin(p)
          \/ KillCheck(p)
          \/ \E pw \in Passwords : KillAuth(p, pw)
          \/ KillPid(p)
          \/ KillQuit(p)
          \/ KillGrace(p)
          \/ Return(p)
          \/ \E n \in AllNames : InstanceSelect(p, n)
    \/ \E k \in Pids : WorkerExit(k) \/ ProcessDies(k)

KillSpec == KillInit /\ [][KillNext]_vars

\* the change-password action of the admin menu, one use after the other
AdminNext ==
    \E p \in Procs :
       \/ \E cur \in TypedPasswords : Sequential(p) /\ AdminAsk(p, cur)
       \/ \E new \in Passwords, valid \in BOOLEAN : AdminChange(p, new, valid)
       \/ Return(p)

AdminSpec == KillInit /\ [][AdminNext]_vars

\* cmd_backup and cmd_restore typed at the shell, one command after the
\* other, on a machine with one instance, whose server may be up; the files
\* change at any time but in the middle of a restore
BackupInit ==
    /\ \E n \in {NameA, NameLogs} :
          /\ exists = {n}
          /\ gfile = GlobalFile(n, EmptyText)
          /\ eula = [m \in AllNames |-> IF m = n THEN "true" ELSE "missing"]
          /\ jar = [m \in AllNames |-> m = n]
          /\ tree \in [AllNames -> Trees \cup {NoFiles}]
          /\ tree[n] \in Trees
          /\ sessions \in {ss \in RunningSessions({n}) :
                              Cardinality({k \in Pids : ss[k] # NoSession}) <= 1}
    /\ port = [m \in AllNames |-> DefaultPort]
    /\ icfg = UsedConfigs
    /\ Absent
    /\ NoArchives
    /\ IdleProcs
    /\ NoHistory

BackupNext ==
    \/ \E p \in Procs :
          \/ Sequential(p) /\ BackupBegin(p)
          \/ BackupSaveOff(p)
          \/ BackupSaveAll(p)
          \/ BackupZip(p)
          \/ BackupSaveOn(p)
          \/ Sequential(p) /\ RestoreBegin(p)
          \/ \E s \in Stamps : RestorePick(p, s)
          \/ \E yes \in BOOLEAN : RestoreConfirm(p, yes)
          \/ RestoreUnzip(p)
          \/ Return(p)
    \/ \E k \in Pids : WorkerExit(k)
    \/ /\ ~Restoring
       /\ \E n \in AllNames, f \in Files, c \in {0, 1, 2} : WriteFile(n, f, c)
    \/ Tick

BackupSpec == BackupInit /\ [][BackupNext]_vars

\* cmd_backup and cmd_restore typed at the shell while another shell selects
\* instances: two instances whose servers may be up, archiving may fail
\* part-way
AutosaveNext ==
    \/ \E p \in Procs :
          \/ Sequential(p) /\ BackupBegin(p)
          \/ BackupSaveOff(p)
          \/ BackupSaveAll(p)
          \/ BackupZip(p)
          \/ \E written \in SUBSET Files : BackupZipFails(p, written)
          \/ BackupSaveOn(p)
          \/ Sequential(p) /\ RestoreBegin(p)
          \/ \E s \in Stamps : RestorePick(p, s)
          \/ \E yes \in BOOLEAN : RestoreConfirm(p, yes)
          \/ RestoreUnzip(p)
          \/ Return(p)
          \/ \E n \in AllNames : InstanceSelect(p, n)
    \/ \E k \in Pids : WorkerExit(k)

AutosaveSpec == StopInit /\ [][AutosaveNext]_vars

\* what is typed after --version and --type, and into `config set`
Versions == {<<"1.21">>, <<"1.19">>}
Settings ==
    {<<"server_version", <<"1.18">> >>, <<"login_delay", <<"5">> >>,
     <<"motd", <<"hi">> >>, <<"current_instance", NameLogs>>}

\* the config commands, create and select typed at the shell, one command
\* after the other, on a machine with one instance; the global config file
\* may be missing or one from before the instances, holding server_version
ConfigInit ==
    /\ exists = {NameA}
    /\ gfile \in {Missing, GlobalFile(NameA, EmptyText),
                  Whole(Put(GlobalFile(NameA, EmptyText).rec,
                            "server_version", <<"1.8">>))}
    /\ icfg = UsedConfigs
    /\ eula = [n \in AllNames |-> IF n \in exists THEN "true" ELSE "missing"]
    /\ jar = [n \in AllNames |-> n \in exists]
    /\ port = [n \in AllNames |-> DefaultPort]
    /\ tree = [n \in AllNames |-> IF n \in exists THEN UsedTree ELSE NoFiles]
    /\ NoArchives
    /\ sessions = [k \in Pids |-> NoSession]
    /\ IdleProcs
    /\ NoHistory

ConfigNext ==
    \E p \in Procs :
       \/ Sequential(p) /\ FirstAccess(p)
       \/ FirstDump(p)
       \/ Sequential(p) /\ ConfigBegin(p)
       \/ ConfigList(p)
       \/ \E s \in Settings : ConfigSet(p, s[1], s[2])
       \/ ConfigDump(p)
       \/ /\ Sequential(p)
          /\ Cardinality(exists) < MaxInstances
          /\ \E n \in TypedNames, v \in Versions, t \in {<<"fabric">>} :
                CreateBegin(p, n, v, t)
       \/ CreateDump(p)
       \/ CreateInit(p)
       \/ \E installed \in BOOLEAN : CreateInstall(p, installed)
       \/ \E n \in AllNames : Sequential(p) /\ InstanceSelect(p, n)
       \/ Return(p)

ConfigSpec == ConfigInit /\ [][ConfigNext]_vars

\* the config commands and select typed at several shells at once
SharedConfigNext ==
    \E p \in Procs :
       \/ FirstAccess(p)
       \/ FirstDump(p)
       \/ ConfigBegin(p)
       \/ ConfigList(p)
       \/ \E s \in Settings : ConfigSet(p, s[1], s[2])
       \/ ConfigDump(p)
       \/ \E n \in AllNames : InstanceSelect(p, n)
       \/ Return(p)

SharedConfigSpec == ConfigInit /\ [][SharedConfigNext]_vars

\* create, select and delete typed at the shell, one command after the
\* other, on a machine with two instances whose servers may be up
InstanceInit == StopInit /\ current = NameA

InstanceNext ==
    \E p \in Procs :
       \/ /\ Sequential(p)
          /\ Cardinality(exists) < MaxInstances
          /\ \E n \in TypedNames, v \in Versions, t \in {<<"fabric">>} :
                CreateBegin(p, n, v, t)
       \/ CreateDump(p)
       \/ CreateInit(p)
       \/ \E installed \in BOOLEAN : CreateInstall(p, installed)
       \/ \E n \in TypedNames : Sequential(p) /\ InstanceSelect(p, n)
       \/ \E n \in TypedNames : Sequential(p) /\ DeleteBegin(p, n)
       \/ \E yes \in BOOLEAN : DeleteConfirm(p, yes)
       \/ Return(p)

InstanceSpec == InstanceInit /\ [][InstanceNext]_vars


\* records a config file may hold: written by this program, by the version
\* before the instances, or by hand
FileRecords ==
    UNION {[ks -> {<<"1.8">>, <<"1.18">>}] :
             ks \in SUBSET {"java_path", "server_version", "ram_max", "motd"}}

\* one instance, active; its instance.json and the global config file hold
\* any of the records
RoundTripInit ==
    /\ exists = {NameA}
    /\ gfile \in {Whole([k \in DOMAIN r \cup DOMAIN GlobalFile(NameA, EmptyText).rec |->
                           IF k \in DOMAIN r THEN r[k]
                           ELSE GlobalFile(NameA, EmptyText).rec[k]]) :
                    r \in FileRecords}
    /\ icfg \in {[m \in AllNames |-> IF m = NameA THEN Whole(r) ELSE Missing] :
                    r \in FileRecords}
    /\ eula = [n \in AllNames |-> IF n \in exists THEN "true" ELSE "missing"]
    /\ jar = [n \in AllNames |-> n \in exists]
    /\ port = [n \in AllNames |-> DefaultPort]
    /\ tree = [n \in AllNames |-> IF n \in exists THEN UsedTree ELSE NoFiles]
    /\ NoArchives
    /\ sessions = [k \in Pids |-> NoSession]
    /\ IdleProcs
    /\ NoHistory

RoundTripNext ==
    \E p \in Procs :
       \/ \E n \in {NoName, NameA, NameAB} : SaveLoaded(p, n)
       \/ Return(p)

RoundTripSpec == RoundTripInit /\ [][RoundTripNext]_vars
(***************************************************************************)
(* Properties of cmd_start.                                                *)
(***************************************************************************)
\* invocation p takes its first step / the step it is at
Begins(p) == pc[p] = "idle" /\ pc'[p] # "idle"
StepsAt(p, l) == pc[p] = l /\ (pc'[p] # l \/ result'[p] # result[p])

\* a process listens on port q
Listening(q) ==
    \/ \E k \in Pids : /\ sessions[k].st # "none"
                       /\ sessions[k].bound
                       /\ port[sessions[k].name] = q
    \/ \E p \in Procs : pc[p] = "fg_listen" /\ port[target[p]] = q

\* C1: a start of an instance whose eula.txt is missing or lacks "eula=true"
\* is rejected as EulaNotAccepted and creates no session and no foreground
\* worker, whatever else holds
C1_EulaGate ==
    [][\A p \in Procs :
          (Begins(p) /\ eula[current] # "true") =>
             /\ pc'[p] = "done"
             /\ result'[p] = "EulaNotAccepted"
             /\ sessions' = sessions]_vars

\* a start was rejected for the EULA though the instance had a server.jar,
\* no session and a free port
C1_Reached ==
    \E p \in Procs :
       /\ pc[p] = "done"
       /\ result[p] = "EulaNotAccepted"
       /\ eula[current] = "false"
       /\ jar[current]
       /\ SessionsOf(current) = {}
       /\ ~Listening(port[current])

\* C2: a start of an instance that has a live session (the second of two
\* starts in sequence) is rejected as AlreadyRunning and the sessions stay
\* as they are
C2_SecondStartRejected ==
    [][\A p \in Procs :
          (Begins(p) /\ eula[current] = "true" /\ SessionsOf(current) # {}) =>
             /\ pc'[p] = "done"
             /\ result'[p] = "AlreadyRunning"
             /\ sessions' = sessions]_vars

\* the second start was rejected, no other invocation runs, one session
C2_Reached ==
    \E p \in Procs :
       /\ pc[p] = "done"
       /\ result[p] = "AlreadyRunning"
       /\ \A q \in Procs \ {p} : pc[q] = "idle"
       /\ Cardinality(SessionsOf(current)) = 1

\* C3, as stated: in every reachable state an instance has at most one live
\* session
C3_AtMostOneSession ==
    \A n \in AllNames : Cardinality(SessionsOf(n)) <= 1

\* C3, amended: an instance has at most one live session unless two starts
\* of it overlapped between the liveness check and the spawn
C3_AtMostOneSessionUnlessOverlap ==
    \A n \in AllNames : ~overlap[n] => Cardinality(SessionsOf(n)) <= 1

\* two starts of the active instance ended without overlap, one started the
\* session and the other was rejected
C3_Reached ==
    \E p, q \in Procs :
       /\ pc[p] = "done" /\ result[p] = "Started"
       /\ pc[q] = "done" /\ result[q] = "AlreadyRunning"
       /\ ~overlap[current]
       /\ Cardinality(SessionsOf(current)) = 1

\* C4, as stated: two instances set to the same port never both have a live
\* session
C4_NoSharedPort ==
    \A j, k \in LivePids :
       sessions[j].name # sessions[k].name =>
          port[sessions[j].name] # port[sessions[k].name]

\* C4, amended: a start whose probe finds a process listening on the
\* target's port is rejected as PortConflict and spawns nothing
C4_BusyPortRejected ==
    [][\A p \in Procs :
          (StepsAt(p, "start_port") /\ Listening(port[target[p]])) =>
             /\ pc'[p] = "done"
             /\ result'[p] = "PortConflict"
             /\ sessions' = sessions]_vars

\* a start was rejected for the port of another instance's listening worker
C4_Reached ==
    \E p \in Procs :
       /\ pc[p] = "done"
       /\ result[p] = "PortConflict"
       /\ SessionsOf(current) = {}
       /\ \E k \in LivePids : /\ sessions[k].name # current
                              /\ sessions[k].bound
                              /\ port[sessions[k].name] = port[current]

(***************************************************************************)
(* Properties of cmd_stop.                                                 *)
(***************************************************************************)
\* invocation p takes a step (a poll that finds the server alive changes
\* only the count of polls)
Steps(p) == pc'[p] # pc[p] \/ polls'[p] # polls[p]

\* which process ids are sessions, and of which instance
Listing == [k \in Pids |-> <<sessions[k].st, sessions[k].name>>]

\* C5: when the worker of the target has exited after the "stop" it was
\* sent, the next liveness poll of cmd_stop finds the instance not alive and
\* cmd_stop reports stopped; no more than 30 polls are made
C5_ExitedWorkerReportsStopped ==
    [][\A p \in Procs :
          (pc[p] = "stop_poll" /\ Steps(p)) =>
             /\ polls[p] < StopPolls
             /\ (target[p] \in honoured /\ SessionsOf(target[p]) = {}) =>
                   (pc'[p] = "done" /\ result'[p] = "Stopped")]_vars

\* C6: no step of cmd_stop ends a session or a process, and the step that
\* reports the timeout, after 30 polls that found the instance alive,
\* leaves the sessions as they are
C6_TimeoutLeavesSessions ==
    [][\A p \in Procs :
          Steps(p) =>
             /\ Listing' = Listing
             /\ result'[p] = "StopTimedOut" =>
                   /\ pc[p] = "stop_poll"
                   /\ polls[p] + 1 = StopPolls
                   /\ sessions' = sessions]_vars

\* cmd_stop gave up, and the session that was sent "stop" is still live
C6_Reached ==
    \E p \in Procs :
       /\ pc[p] = "done"
       /\ result[p] = "StopTimedOut"
       /\ \E k \in SessionsOf(current) : sessions[k].gotStop

(***************************************************************************)
(* Properties of cmd_kill.                                                 *)
(***************************************************************************)
\* h is a hash of the text t
HashOf(h, t) == h = Sha256(t) \/ \E slt \in Salts : h = Pbkdf2(slt, t)

\* C7: a step of cmd_kill changes the sessions only when an admin hash is
\* stored and the typed password hashes to it; without a stored hash and
\* after a wrong password cmd_kill ends with the sessions as they were
C7_KillNeedsPassword ==
    [][\A p \in Procs :
          Steps(p) =>
             /\ sessions' # sessions =>
                   khash[p] # EmptyText /\ HashOf(khash[p], typed[p])
             /\ (Begins(p) /\ adminHash = EmptyText) =>
                   pc'[p] = "done" /\ result'[p] = "NoAdminPassword"
             /\ (pc[p] = "kill_auth" /\ pc'[p] # "done") =>
                   HashOf(khash[p], typed'[p])]_vars

\* a wrong password was typed and the session of the active instance lives
C7_Reached ==
    \E p \in Procs :
       /\ pc[p] = "done"
       /\ result[p] = "KillAuthFailed"
       /\ adminHash # EmptyText
       /\ SessionsOf(current) # {}

\* C8: when the process whose id cmd_kill resolved is still alive after the
\* grace period, cmd_kill signals it, the process is gone and the call
\* completes normally
C8_SurvivorIsSignalled ==
    [][\A p \in Procs :
          (pc[p] = "kill_grace" /\ Steps(p) /\ ProcessAlive(pid[p])) =>
             /\ result'[p] = "Killed"
             /\ sessions'[pid[p]].st = "none"]_vars

(***************************************************************************)
(* Properties of cmd_backup and cmd_restore.                               *)
(***************************************************************************)
\* invocation p takes the first step of cmd_restore (and not of cmd_backup)
BeginsRestore(p) ==
    /\ Begins(p)
    /\ pc'[p] \notin {"backup_saveoff", "backup_zip"}
    /\ result'[p] # "NoWorld"

\* C9: a restore invoked while is_server_running is true for the active
\* instance is rejected as RestoreConflict and leaves every file of every
\* instance directory, and the archives, as they were
C9_RestoreRejectedWhileRunning ==
    [][\A p \in Procs :
          (BeginsRestore(p) /\ is_server_running(current)) =>
             /\ pc'[p] = "done"
             /\ result'[p] = "RestoreConflict"
             /\ tree' = tree
             /\ archives' = archives]_vars

\* a restore was rejected while the server ran, though a backup was there
C9_Reached ==
    \E p \in Procs :
       /\ pc[p] = "done"
       /\ result[p] = "RestoreConflict"
       /\ SessionsOf(current) # {}
       /\ ListedBackups # {}
       /\ HasWorld(tree[current])

\* C10: the confirmed restore of an archive that cmd_backup made of the
\* stopped active instance leaves the world subtree of that instance with
\* exactly the files and contents it had when the archive was made
C10_RoundTrip ==
    [][\A p \in Procs :
          (/\ pc[p] = "restore_unzip"
           /\ Steps(p)
           /\ archives[stamp[p]].of = target[p]
           /\ archives[stamp[p]].cold) =>
             WorldOf(tree'[target[p]]) = worldAt[stamp[p]]]_vars

\* C11: when a cmd_backup run returns, every session that took its save-off
\* and is still live has autosave enabled again
C11_AutosaveRestored ==
    [][\A p \in Procs :
          (pc[p] \in {"backup_zip", "backup_saveon"} /\ pc'[p] = "done") =>
             \A k \in suspended[p] :
                sessions'[k].st = "live" => sessions'[k].autosave]_vars

\* C12: a command that reads the global config file and the instance config
\* file never finds one of them opened for writing and not yet written
C12_ReadersSeeWholeFiles ==
    [][\A p \in Procs :
          (pc[p] = "idle" /\ pc'[p] \in {"config_loaded", "done"}) =>
             /\ gfile.st # "torn"
             /\ InstanceFile(current).st # "torn"]_vars

\* C13: load_config() is the global record overlaid with the record of the
\* active instance, the instance's entries winning; `instance create` leaves
\* in instance.json the version and the type it was given, and after
\* `instance select` of an instance load_config() yields the entries of its
\* instance.json
C13_InstanceWins ==
    [][\A p \in Procs :
          /\ (pc[p] = "idle" /\ pc'[p] = "config_loaded") =>
                LET g == get_global_config
                    i == load_instance_config(current)
                IN  /\ DOMAIN pending'[p] = DOMAIN g \cup DOMAIN i
                    /\ \A k \in DOMAIN i : pending'[p][k] = i[k]
                    /\ \A k \in DOMAIN g \ DOMAIN i : pending'[p][k] = g[k]
          /\ (pc[p] = "create_dump" /\ pc'[p] = "create_init") =>
                \E v \in Versions :
                   icfg'[target[p]] = Whole(default_i_cfg(v, <<"fabric">>))
          /\ (pc[p] \in {"create_init", "create_install"} /\ pc'[p] # "done") =>
                \A k \in {"server_version", "server_type"} :
                   pending'[p][k] = pending[p][k]
          /\ (pc[p] = "create_install" /\ pc'[p] = "done") =>
                \A k \in {"server_version", "server_type"} :
                   /\ icfg'[target[p]].st = "whole"
                   /\ icfg'[target[p]].rec[k] = pending[p][k]
          /\ (pc' = pc /\ current' # current
                /\ InstanceFile(current)'.st = "whole") =>
                \A k \in DOMAIN load_instance_config(current)' :
                   load_config(NoName)'[k] = load_instance_config(current)'[k]]_vars

\* a created instance was selected and load_config() has read its version
\* and type
C13_Reached ==
    \E p \in Procs :
       /\ pc[p] = "config_loaded"
       /\ current = NameAB
       /\ pending[p]["server_version"] = <<"1.21">>
       /\ pending[p]["server_type"] = <<"fabric">>

\* C14: no step of `instance create` changes current_instance
C14_CreateKeepsCurrent ==
    [][\A p \in Procs :
          (pc[p] \in {"create_dump", "create_init", "create_install"}
             \/ pc'[p] = "create_dump") =>
             current' = current]_vars

\* C19: save_config(record, name) leaves in the global file exactly the
\* entries of record under GLOBAL_CONFIG_KEYS and in instance.json of name
\* exactly the entries under INSTANCE_CONFIG_KEYS, and no key is in both sets
C19_SaveSplitsRecord ==
    [][\A p \in Procs :
          LET Split(record) ==
                 /\ gfile'.st = "whole"
                 /\ DOMAIN gfile'.rec = GLOBAL_CONFIG_KEYS \cap DOMAIN record
                 /\ \A k \in DOMAIN gfile'.rec : gfile'.rec[k] = record[k]
                 /\ DOMAIN pending'[p] = INSTANCE_CONFIG_KEYS \cap DOMAIN record
                 /\ \A k \in DOMAIN pending'[p] : pending'[p][k] = record[k]
          IN  /\ GLOBAL_CONFIG_KEYS \cap INSTANCE_CONFIG_KEYS = {}
              /\ (pc[p] = "config_loaded" /\ pc'[p] = "config_dump") =>
                    \E s \in Settings : Split(Put(pending[p], s[1], s[2]))
              /\ (pc[p] = "create_init" /\ pc'[p] = "create_install") =>
                    Split(Put(Put(Put(load_config(target[p]),
                                "server_version", pending[p]["server_version"]),
                                "server_type", pending[p]["server_type"]),
                                "current_instance", target[p]))
              /\ (pc[p] \in {"config_dump", "create_install"}
                    /\ pc'[p] = "done") =>
                    /\ icfg'[target[p]] = Whole(pending[p])
                    /\ gfile' = gfile]_vars

\* two `config set` have saved a global key and an instance key
C19_Reached ==
    \E p \in Procs :
       /\ pc[p] = "done"
       /\ result[p] = "ConfigSet"
       /\ gfile.st = "whole"
       /\ "login_delay" \in DOMAIN gfile.rec
       /\ InstanceFile(current).st = "whole"
       /\ "server_version" \in DOMAIN load_instance_config(current)
       /\ load_instance_config(current)["server_version"] = <<"1.18">>

\* C15: `instance delete` asks for confirmation only for a name that is not
\* the active instance and names an existing instance directory, and once
\* confirmed it removes that directory only: the other instances' files and
\* the global config stay as they were
C15_DeleteRemovesOnlyNamed ==
    [][\A p \in Procs :
          /\ (pc[p] = "idle" /\ pc'[p] = "delete_confirm") =>
                /\ target'[p] # current
                /\ target'[p] \in exists
          /\ (pc[p] = "delete_confirm" /\ pc'[p] = "done") =>
                /\ exists \ exists' \subseteq {target[p]}
                /\ gfile' = gfile
                /\ archives' = archives
                /\ \A m \in AllNames \ {target[p]} :
                      /\ icfg'[m] = icfg[m]
                      /\ tree'[m] = tree[m]
                      /\ eula'[m] = eula[m]
                      /\ jar'[m] = jar[m]]_vars

\* C16: `instance delete` does not go on to remove an instance that has a
\* live session
C16_DeleteRejectedWhileRunning ==
    [][\A p \in Procs :
          (pc[p] = "idle" /\ pc'[p] = "delete_confirm") =>
             SessionsOf(target'[p]) = {}]_vars

\* C17: create, select and delete go on only with a name made of ASCII
\* letters, digits, '_' and '-': select makes only such a name the active
\* instance, create and delete pass their checks only with such a name
C17_OnlyValidNames ==
    [][\A p \in Procs :
          /\ current' # current => validate_instance_name(current')
          /\ (pc[p] = "idle" /\ pc'[p] \in {"create_dump", "delete_confirm"}) =>
                validate_instance_name(target'[p])]_vars

\* C18: a backup archive that exists is never changed or replaced by a later
\* step
C18_ArchivesNeverChange ==
    [][\A s \in Stamps :
          archives[s].present => archives'[s] = archives[s]]_vars

\* C20: cmd_backup reads the files at once only when its instance has no
\* session, and otherwise only after the save-off step and then the save-all
\* step; a backup of an instance without a session sends nothing to any
\* session
C20_SaveOffOnlyWhenRunning ==
    [][\A p \in Procs :
          /\ (pc[p] = "idle" /\ pc'[p] = "backup_zip") =>
                SessionsOf(target'[p]) = {}
          /\ (pc[p] # "backup_zip" /\ pc'[p] = "backup_zip") =>
                pc[p] \in {"idle", "backup_saveall"}
          /\ (pc[p] # "backup_saveall" /\ pc'[p] = "backup_saveall") =>
                pc[p] = "backup_saveoff"
          /\ (pc[p] = "idle" /\ pc'[p] = "backup_saveoff") =>
                SessionsOf(target'[p]) # {}
          /\ (pc[p] \in {"backup_saveoff", "backup_saveall", "backup_zip",
                         "backup_saveon"}
                /\ pc'[p] # pc[p] /\ SessionsOf(target[p]) = {}) =>
                sessions' = sessions]_vars

\* C21: the archive that cmd_backup writes holds every file of the instance
\* directory that does not lie under a directory named backups, logs, cache,
\* libraries or versions, with its content, and no file that does
C21_ArchiveHoldsAllButExcluded ==
    [][\A p \in Procs :
          (pc[p] = "backup_zip" /\ pc'[p] # "backup_zip") =>
             \A f \in Files :
                archives'[stamp[p]].entries[f] =
                   IF \E w \in ExcludedWords :
                         IsSubstring(<<"/">> \o w \o <<"/">>,
                                     <<"/">> \o f.dir \o <<"/">>)
                     THEN 0
                     ELSE tree[target[p]][f]]_vars

\* C22: a confirmed restore leaves under world exactly the world files of
\* the archive, with their contents; a restore that is rejected or declined
\* leaves every file of every instance as it was
C22_RestoreReplacesWorld ==
    [][\A p \in Procs :
          /\ (pc[p] = "restore_unzip" /\ pc'[p] = "done") =>
                WorldOf(tree'[target[p]]) = WorldOf(archives[stamp[p]].entries)
          /\ ((BeginsRestore(p) \/ pc[p] \in {"restore_pick", "restore_confirm"})
                /\ pc'[p] = "done") =>
                tree' = tree]_vars

\* a restore has put back an archive that holds level.dat and no region file
C22_Reached ==
    \E p \in Procs, s \in Stamps :
       /\ pc[p] = "done"
       /\ result[p] = "Restored"
       /\ archives[s].present
       /\ archives[s].entries[FileRegion] = 0
       /\ archives[s].entries[FileLevel] # 0
       /\ WorldOf(tree[current]) = WorldOf(archives[s].entries)

\* C23: the process id that cmd_kill resolves is that of a session of the
\* active instance, and its quit changes no session of another instance
C23_KillHitsOwnSession ==
    [][\A p \in Procs :
          /\ (pc[p] = "kill_pid" /\ pc'[p] = "kill_quit") =>
                pid'[p] \in SessionsOf(current) \cup {0}
          /\ (pc[p] = "kill_quit" /\ Steps(p)) =>
                \A k \in Pids :
                   sessions'[k] # sessions[k] => sessions[k].name = current]_vars

\* C24: is_server_running of an instance is true exactly when a session of
\* that very name is listed
C24_RunningIffOwnSession ==
    \A n \in AllNames : is_server_running(n) <=> SessionsOf(n) # {}

\* C25: when cmd_kill has verified the typed password against a stored
\* unsalted SHA-256 hash and ends, the stored admin_password_hash is a
\* salted one
C25_LegacyHashUpgraded ==
    [][\A p \in Procs :
          (pc[p] \in {"kill_quit", "kill_grace"} /\ pc'[p] = "done"
             /\ ~HasDollar(khash[p])) =>
             HasDollar(adminHash')]_vars

\* C26: with an admin hash stored, the change-password action of the admin
\* menu goes past the check of the current password exactly when the typed
\* text hashes to the stored hash, and a rejected text leaves the stored
\* hash as it was
C26_ChangeNeedsCurrentPassword ==
    [][\A p \in Procs :
          (pc[p] = "admin_verify" /\ Steps(p) /\ khash[p] # EmptyText) =>
             /\ result'[p] # "IncorrectPassword" <=>
                   HashOf(khash[p], typed[p])
             /\ result'[p] = "IncorrectPassword" => adminHash' = adminHash]_vars

\* C27: cmd_restore removes the world of an instance only while that
\* instance has no live session
C27_NoRemovalUnderLiveSession ==
    [][\A p \in Procs :
          (pc[p] = "restore_confirm" /\ pc'[p] = "restore_unzip") =>
             SessionsOf(target'[p]) = {}]_vars

\* C28: whenever no command is under way, current_instance names an
\* existing instance directory
C28_CurrentNamesInstance ==
    (\A p \in Procs : pc[p] \in {"idle", "done"}) => current \in exists

\* C29: the save of a `config set` changes in the global file no entry
\* under GLOBAL_CONFIG_KEYS but the one that was set: it puts back no value
\* read before another invocation's update
C29_NoStaleWrite ==
    [][\A p \in Procs :
          (pc[p] = "config_loaded" /\ pc'[p] = "config_dump"
             /\ gfile.st = "whole") =>
             \E s \in Settings :
                \A k \in (DOMAIN gfile.rec \cap GLOBAL_CONFIG_KEYS) \ {s[1]} :
                   /\ k \in DOMAIN gfile'.rec
                   /\ gfile'.rec[k] = gfile.rec[k]]_vars

\* C30: saving what was just loaded leaves the record of the global config
\* file and the record of every instance.json as they were
C30_RoundTripKeepsFiles ==
    [][\A p \in Procs :
          (pc[p] = "idle" /\ result'[p] = "Saved") =>
             /\ gfile'.rec = gfile.rec
             /\ \A n \in AllNames : icfg'[n].rec = icfg[n].rec]_vars

====
